---- MODULE Spec2Model ----
(***************************************************************************)
(* A model of src/chat_statistics/stats.py: the ChatStatistics object, its *)
(* loaded chat export and stopword set, and its operations rebuild_msg,    *)
(* msg_has_question, get_top_users and generate_word_cloud.                *)
(*                                                                         *)
(* Text is a sequence of characters.  TLA+ strings cannot be indexed and   *)
(* the tools read ASCII only, so a character is a short string naming it:  *)
(*   "a" "b" "c" "t" "e" "x" "o"  Latin letters                            *)
(*   "?"    QUESTION MARK (U+003F)                                         *)
(*   "AQ"   ARABIC QUESTION MARK (U+061F)                                  *)
(*   " "    SPACE                                                          *)
(*   "1"    DIGIT ONE (U+0031)                                             *)
(*   "F1"   EXTENDED ARABIC-INDIC DIGIT ONE (U+06F1), the Persian digit    *)
(*   "K"    ARABIC LETTER KAF (U+0643)                                     *)
(*   "k"    ARABIC LETTER KEHEH (U+06A9), the Persian kaf                  *)
(*   "kI" "kB" "kM" "kF"  the presentation forms of KEHEH: isolated        *)
(*          (U+FB8E), initial (U+FB90), medial (U+FB91), final (U+FB8F)    *)
(*                                                                         *)
(* A JSON value is a tagged record [t, v]: a string ("str", characters),   *)
(* an array ("list", values), an object ("dict", a sequence of             *)
(* <<key, value>> pairs in document order, a key being a sequence of       *)
(* characters) or a number ("num").  A message is a TLA+ record whose      *)
(* DOMAIN is the set of keys the JSON object has.                          *)
(***************************************************************************)
EXTENDS Integers, Sequences, FiniteSets, TLC

VARIABLES chat_data, stop_words, loaded, ret

vars == <<chat_data, stop_words, loaded, ret>>

-----------------------------------------------------------------------------
(* Bounds of the model *)

MaxMsgs == 3

MaxTopN == 2

MaxCallMsgs == 2

-----------------------------------------------------------------------------
(* JSON values *)

Str(s) == [t |-> "str", v |-> s]

List(l) == [t |-> "list", v |-> l]

Dict(pairs) == [t |-> "dict", v |-> pairs]

Num(n) == [t |-> "num", v |-> <<n>>]

KeyText == <<"t", "e", "x", "t">>

KeyOther == <<"o">>

\* type(x) is str / isinstance(x, str)
IsStr(x) == x.t = "str"

\* a Python outcome: a returned value, or a raised exception
Return(x) == [raised |-> FALSE, value |-> x]

Raise == [raised |-> TRUE, value |-> <<>>]

\* what iterating over x yields (for ... in x), or Raise when x is not iterable:
\* a list yields its elements, a dict its keys, a str its characters
Iterate(x) ==
    CASE x.t = "list" -> Return(x.v)
      [] x.t = "dict" -> Return([i \in 1..Len(x.v) |-> Str(x.v[i][1])])
      [] x.t = "str"  -> Return([i \in 1..Len(x.v) |-> Str(<<x.v[i]>>)])
      [] OTHER -> Raise

\* 'text' in x, for x that is not a str: membership among a dict's keys or a
\* list's elements; Raise (TypeError) for a number
Contains(x, key) ==
    CASE x.t = "dict" -> Return(\E i \in 1..Len(x.v) : x.v[i][1] = key)
      [] x.t = "list" -> Return(\E i \in 1..Len(x.v) : x.v[i].t = "str" /\ x.v[i].v = key)
      [] OTHER -> Raise

\* x['text']: the value under the key in a dict; Raise (TypeError) for a list
Subscript(x, key) ==
    IF x.t = "dict" /\ \E i \in 1..Len(x.v) : x.v[i][1] = key
    THEN Return(x.v[CHOOSE i \in 1..Len(x.v) :
                      /\ x.v[i][1] = key
                      /\ \A j \in (i+1)..Len(x.v) : x.v[j][1] # key][2])
    ELSE Raise

-----------------------------------------------------------------------------
(* rebuild_msg *)

RECURSIVE rebuild_loop(_, _, _)
rebuild_loop(subs, i, msg_text) ==
    IF i > Len(subs) THEN Return(msg_text)
    ELSE LET sub_msg == subs[i] IN
         IF IsStr(sub_msg) THEN rebuild_loop(subs, i + 1, msg_text \o sub_msg.v)
         ELSE LET has == Contains(sub_msg, KeyText) IN
              IF has.raised THEN Raise
              ELSE IF has.value
                   THEN LET got == Subscript(sub_msg, KeyText) IN
                        IF got.raised \/ ~IsStr(got.value) THEN Raise
                        ELSE rebuild_loop(subs, i + 1, msg_text \o got.value.v)
                   ELSE rebuild_loop(subs, i + 1, msg_text)

\* rebuild_msg that appends the records' text only
rebuild_msg_records_only(sub_messages) ==
    LET it == Iterate(sub_messages) IN
    IF it.raised THEN Raise
    ELSE rebuild_loop(SelectSeq(it.value, LAMBDA sub : ~IsStr(sub)), 1, <<>>)

rebuild_msg(sub_messages) ==
    LET it == Iterate(sub_messages) IN
    IF it.raised THEN Raise ELSE rebuild_loop(it.value, 1, <<>>)

-----------------------------------------------------------------------------
(* hazm.sent_tokenize: every run of sentence-ending punctuation that is     *)
(* followed by white space ends a sentence; sentences are stripped and the  *)
(* empty ones dropped.  Of the sentence-ending characters the alphabet has  *)
(* the two question marks.                                                  *)

SentenceEnd == {"?", "AQ"}

RECURSIVE Strip(_)
Strip(s) ==
    IF s = <<>> THEN s
    ELSE IF Head(s) = " " THEN Strip(Tail(s))
    ELSE IF s[Len(s)] = " " THEN Strip(SubSeq(s, 1, Len(s) - 1))
    ELSE s

RECURSIVE sent_split(_, _, _)
sent_split(text, i, cur) ==
    IF i > Len(text) THEN <<cur>>
    ELSE IF text[i] = " " /\ cur # <<>> /\ cur[Len(cur)] \in SentenceEnd
         THEN <<cur>> \o sent_split(text, i + 1, <<>>)
         ELSE sent_split(text, i + 1, cur \o <<text[i]>>)

sent_tokenize(text) ==
    LET parts == sent_split(text, 1, <<>>)
        stripped == [i \in 1..Len(parts) |-> Strip(parts[i])]
    IN SelectSeq(stripped, LAMBDA s : s # <<>>)

\* ('?' not in sentence) and ('AQ' not in sentence) is false
HasMark(sentence) ==
    \E i \in 1..Len(sentence) : sentence[i] = "?" \/ sentence[i] = "AQ"

-----------------------------------------------------------------------------
(* get_top_users *)

\* lines 66-77: the question index.  Returns the messages as the loop leaves
\* them (msg['text'] rebuilt in place), the ids flagged True, and whether an
\* exception ended the loop.  is_question is the defaultdict(bool): a function
\* on the keys it holds.
RECURSIVE index_loop(_, _, _)
index_loop(messages, i, is_question) ==
    IF i > Len(messages)
    THEN [raised |-> FALSE, messages |-> messages, is_question |-> is_question]
    ELSE LET msg == messages[i]
             failed == [raised |-> TRUE, messages |-> messages,
                        is_question |-> is_question]
         IN
         IF "text" \notin DOMAIN msg THEN failed
         ELSE LET rebuilt == IF IsStr(msg.text) THEN Return(msg.text.v)
                             ELSE rebuild_msg(msg.text)
              IN
              IF rebuilt.raised THEN failed
              ELSE LET after == [messages EXCEPT ![i].text = Str(rebuilt.value)]
                       sentences == sent_tokenize(rebuilt.value)
                       found == \E k \in 1..Len(sentences) : HasMark(sentences[k])
                   IN
                   IF found /\ "id" \notin DOMAIN msg
                   THEN [failed EXCEPT !.messages = after]
                   ELSE index_loop(after, i + 1,
                                   IF found
                                   THEN [k \in DOMAIN is_question \cup {msg.id} |->
                                           IF k = msg.id THEN TRUE ELSE is_question[k]]
                                   ELSE is_question)

\* is_question[key] of the defaultdict(bool): bool() for a key it does not hold
LookupDefaultTrue(is_question, key) ==
    IF key \in DOMAIN is_question THEN is_question[key] ELSE TRUE

Lookup(is_question, key) ==
    IF key \in DOMAIN is_question THEN is_question[key] ELSE FALSE

\* msg.get('reply_to_message_id') is truthy: the key is present and its value
\* is not 0
HasReply(msg) ==
    "reply_to_message_id" \in DOMAIN msg /\ msg.reply_to_message_id # 0

\* lines 81-88: the senders of the replies to questions, in message order
RECURSIVE users_loop(_, _, _, _)
users_loop(messages, i, is_question, users) ==
    IF i > Len(messages) THEN Return(users)
    ELSE LET msg == messages[i] IN
         IF ~HasReply(msg) THEN users_loop(messages, i + 1, is_question, users)
         ELSE IF Lookup(is_question, msg.reply_to_message_id) = FALSE
              THEN users_loop(messages, i + 1, is_question, users)
              ELSE IF "from" \notin DOMAIN msg THEN Raise
                   ELSE users_loop(messages, i + 1, is_question,
                                   Append(users, msg.from))

\* Counter(users): each element with its count, in order of first occurrence
RECURSIVE Counter(_)
Counter(users) ==
    IF users = <<>> THEN <<>>
    ELSE LET u == Head(users)
             n == Cardinality({i \in 1..Len(users) : users[i] = u})
         IN <<<<u, n>>>> \o Counter(SelectSeq(Tail(users), LAMBDA x : x # u))

\* sorted(items, key=count, reverse=True): stable, so equal counts keep their order
RECURSIVE SortedByCount(_)
SortedByCount(items) ==
    IF items = <<>> THEN <<>>
    ELSE LET rest == SortedByCount(SubSeq(items, 1, Len(items) - 1))
             x == items[Len(items)]
             before == SelectSeq(rest, LAMBDA y : y[2] >= x[2])
             behind == SelectSeq(rest, LAMBDA y : y[2] < x[2])
         IN before \o <<x>> \o behind

\* most_common that keeps the Counter's own order
most_common_unsorted(items, n) ==
    IF n <= 0 THEN <<>>
    ELSE SubSeq(items, 1, IF n < Len(items) THEN n ELSE Len(items))

\* most_common whose sort puts the later of two equal counts first
most_common_ties_reversed(items, n) ==
    IF n <= 0 THEN <<>>
    ELSE LET sorted == SortedByCount([i \in 1..Len(items) |-> items[Len(items) + 1 - i]])
         IN SubSeq(sorted, 1, IF n < Len(sorted) THEN n ELSE Len(sorted))

\* Counter.most_common(n) for an integer n: heapq.nlargest(n, items, key=count),
\* which is sorted(items, key=count, reverse=True)[:n] for n > 0 and [] otherwise
most_common(items, n) ==
    IF n <= 0 THEN <<>>
    ELSE LET sorted == SortedByCount(items)
         IN SubSeq(sorted, 1, IF n < Len(sorted) THEN n ELSE Len(sorted))

\* the ids the index holds as True
Flagged(is_question) == {k \in DOMAIN is_question : is_question[k]}

\* get_top_users that stores each message's sentences as its text
get_top_users_stores_sentences(messages, top_n) ==
    LET index == index_loop(messages, 1, <<>>)
        users == users_loop(index.messages, 1, index.is_question, <<>>)
        Sentences(text) ==
            LET sentences == sent_tokenize(text.v)
            IN List([k \in 1..Len(sentences) |-> Str(sentences[k])])
    IN [raised |-> index.raised \/ users.raised,
        value |-> IF index.raised \/ users.raised THEN <<>>
                  ELSE most_common(Counter(users.value), top_n),
        messages |-> [i \in 1..Len(index.messages) |->
                        IF "text" \in DOMAIN index.messages[i]
                           /\ IsStr(index.messages[i].text)
                        THEN [index.messages[i] EXCEPT !.text = Sentences(@)]
                        ELSE index.messages[i]],
        is_question |-> Flagged(index.is_question)]

\* get_top_users(top_n): the outcome, the chat data it leaves behind, and the
\* ids its index flagged
get_top_users(messages, top_n) ==
    LET index == index_loop(messages, 1, <<>>) IN
    IF index.raised
    THEN [raised |-> TRUE, value |-> <<>>, messages |-> index.messages,
          is_question |-> Flagged(index.is_question)]
    ELSE LET users == users_loop(index.messages, 1, index.is_question, <<>>) IN
         IF users.raised
         THEN [raised |-> TRUE, value |-> <<>>, messages |-> index.messages,
               is_question |-> Flagged(index.is_question)]
         ELSE [raised |-> FALSE,
               value |-> most_common(Counter(users.value), top_n),
               messages |-> index.messages,
               is_question |-> Flagged(index.is_question)]

-----------------------------------------------------------------------------
(* hazm.word_tokenize: runs of question marks are set apart by spaces, then *)
(* the text is split at spaces and the empty pieces dropped.                *)

Marks == {"?", "AQ"}

RECURSIVE word_split(_, _, _)
word_split(text, i, cur) ==
    IF i > Len(text) THEN <<cur>>
    ELSE IF text[i] = " " THEN <<cur>> \o word_split(text, i + 1, <<>>)
    ELSE IF cur # <<>> /\ ((cur[Len(cur)] \in Marks) # (text[i] \in Marks))
         THEN <<cur>> \o word_split(text, i + 1, <<text[i]>>)
         ELSE word_split(text, i + 1, cur \o <<text[i]>>)

word_tokenize(text) == SelectSeq(word_split(text, 1, <<>>), LAMBDA w : w # <<>>)

-----------------------------------------------------------------------------
(* hazm.Normalizer.normalize: character refinement (Arabic kaf to Persian   *)
(* kaf, ASCII digits to Persian digits, runs of spaces to one space), then  *)
(* punctuation spacing (no space before the Arabic question mark, a space   *)
(* after it unless a space or another one follows).                         *)

Refine(c) == CASE c = "K" -> "k" [] c = "1" -> "F1" [] OTHER -> c

RECURSIVE SingleSpaces(_)
SingleSpaces(s) ==
    IF Len(s) < 2 THEN s
    ELSE IF s[1] = " " /\ s[2] = " " THEN SingleSpaces(Tail(s))
    ELSE <<s[1]>> \o SingleSpaces(Tail(s))

RECURSIVE NoSpaceBefore(_)
NoSpaceBefore(s) ==
    IF Len(s) < 2 THEN s
    ELSE IF s[1] = " " /\ s[2] = "AQ" THEN <<"AQ">> \o NoSpaceBefore(Tail(Tail(s)))
    ELSE <<s[1]>> \o NoSpaceBefore(Tail(s))

RECURSIVE SpaceAfter(_)
SpaceAfter(s) ==
    IF Len(s) < 2 THEN s
    ELSE IF s[1] = "AQ" /\ s[2] \notin {" ", "AQ"}
         THEN <<"AQ", " ">> \o SpaceAfter(Tail(s))
         ELSE <<s[1]>> \o SpaceAfter(Tail(s))

normalize(text) ==
    SpaceAfter(NoSpaceBefore(SingleSpaces([i \in 1..Len(text) |-> Refine(text[i])])))

-----------------------------------------------------------------------------
(* arabic_reshaper.reshape: every Arabic letter becomes the presentation    *)
(* form its neighbours call for.  Of the letters of a normalized text the   *)
(* alphabet has KEHEH, which joins on both sides.                           *)

reshape(text) ==
    [i \in 1..Len(text) |->
        IF text[i] # "k" THEN text[i]
        ELSE LET joinsBefore == i > 1 /\ text[i - 1] = "k"
                 joinsAfter == i < Len(text) /\ text[i + 1] = "k"
             IN CASE joinsBefore /\ joinsAfter -> "kM"
                  [] joinsBefore -> "kF"
                  [] joinsAfter -> "kB"
                  [] OTHER -> "kI"]

-----------------------------------------------------------------------------
(* bidi.algorithm.get_display: the Unicode bidirectional algorithm without  *)
(* explicit embeddings, on the classes the alphabet has (rules P2-P3, W2,   *)
(* W3, W7, N1, N2, I1, I2, L1, L2 of UAX #9).                               *)

BidiClass(c) ==
    CASE c \in {"AQ", "K", "k", "kI", "kB", "kM", "kF"} -> "AL"
      [] c \in {"1", "F1"} -> "EN"
      [] c = " " -> "WS"
      [] c = "?" -> "ON"
      [] OTHER -> "L"

Reverse(s) == [i \in 1..Len(s) |-> s[Len(s) + 1 - i]]

\* L2: every maximal run of characters of level lv or more is reversed
RECURSIVE ReverseRuns(_, _, _)
ReverseRuns(text, levels, lv) ==
    IF text = <<>> THEN <<>>
    ELSE IF levels[1] < lv
         THEN <<[c |-> text[1], l |-> levels[1]]>>
                \o ReverseRuns(Tail(text), Tail(levels), lv)
         ELSE LET ends == {j \in 1..Len(text) : \A h \in 1..j : levels[h] >= lv}
                  n == CHOOSE j \in ends : \A h \in ends : h <= j
              IN Reverse([i \in 1..n |-> [c |-> text[i], l |-> levels[i]]])
                   \o ReverseRuns(SubSeq(text, n + 1, Len(text)),
                                  SubSeq(levels, n + 1, Len(levels)), lv)

get_display(text) ==
    LET n == Len(text)
        cls == [i \in 1..n |-> BidiClass(text[i])]
        strong == {i \in 1..n : cls[i] \in {"L", "AL"}}
        \* P2, P3: the paragraph level, from the first strong character
        base == IF strong = {} THEN 0
                ELSE IF cls[CHOOSE i \in strong : \A j \in strong : i <= j] = "AL"
                     THEN 1 ELSE 0
        e == IF base = 0 THEN "L" ELSE "R"
        LastStrong(i) ==
            LET before == {j \in strong : j < i} IN
            IF before = {} THEN e
            ELSE cls[CHOOSE j \in before : \A h \in before : h <= j]
        \* W2, W3, W7
        weak == [i \in 1..n |->
                   CASE cls[i] = "EN" ->
                          (CASE LastStrong(i) = "AL" -> "AN"
                             [] LastStrong(i) = "L" -> "L"
                             [] OTHER -> "EN")
                     [] cls[i] = "AL" -> "R"
                     [] OTHER -> cls[i]]
        Dir(t) == IF t = "L" THEN "L" ELSE "R"
        solid == {i \in 1..n : weak[i] \notin {"WS", "ON"}}
        Left(i) == LET b == {j \in solid : j < i} IN
                   IF b = {} THEN e
                   ELSE Dir(weak[CHOOSE j \in b : \A h \in b : h <= j])
        Right(i) == LET a == {j \in solid : j > i} IN
                    IF a = {} THEN e
                    ELSE Dir(weak[CHOOSE j \in a : \A h \in a : j <= h])
        \* N1, N2
        neutral == [i \in 1..n |->
                      IF weak[i] \in {"WS", "ON"}
                      THEN (IF Left(i) = Right(i) THEN Left(i) ELSE e)
                      ELSE weak[i]]
        \* I1, I2, and L1 for trailing white space
        level == [i \in 1..n |->
                    IF \A j \in i..n : cls[j] = "WS" THEN base
                    ELSE IF base = 0
                         THEN (CASE neutral[i] = "L" -> 0
                                 [] neutral[i] = "R" -> 1
                                 [] OTHER -> 2)
                         ELSE (CASE neutral[i] = "R" -> 1
                                 [] OTHER -> 2)]
        two == ReverseRuns(text, level, 2)
        one == ReverseRuns([i \in 1..n |-> two[i].c], [i \in 1..n |-> two[i].l], 1)
    IN [i \in 1..n |-> one[i].c]

-----------------------------------------------------------------------------
(* generate_word_cloud, lines 103-114: the text handed to the renderer *)

RECURSIVE Join(_)
Join(tokens) ==
    IF tokens = <<>> THEN <<>>
    ELSE IF Len(tokens) = 1 THEN tokens[1]
    ELSE tokens[1] \o <<" ">> \o Join(Tail(tokens))

RECURSIVE content_loop(_, _, _, _)
content_loop(messages, i, stopwords, text_content) ==
    IF i > Len(messages) THEN Return(text_content)
    ELSE LET msg == messages[i] IN
         IF "text" \notin DOMAIN msg THEN Raise
         ELSE IF IsStr(msg.text)
              THEN LET tokens == SelectSeq(word_tokenize(msg.text.v),
                                           LAMBDA item : item \notin stopwords)
                   IN content_loop(messages, i + 1, stopwords,
                                   text_content \o <<" ">> \o Join(tokens))
              ELSE content_loop(messages, i + 1, stopwords, text_content)

prepare_text(messages, stopwords) ==
    LET text_content == content_loop(messages, 1, stopwords, <<>>) IN
    IF text_content.raised THEN Raise
    ELSE Return(get_display(reshape(normalize(text_content.value))))

-----------------------------------------------------------------------------
(* msg_has_question, lines 45-56: the outcome and the message as it leaves it *)

\* msg_has_question that returns whether a sentence has a question mark
msg_has_question_found(msg) ==
    IF "text" \notin DOMAIN msg THEN [raised |-> TRUE, value |-> FALSE, msg |-> msg]
    ELSE LET rebuilt == IF IsStr(msg.text) THEN Return(msg.text.v)
                        ELSE rebuild_msg(msg.text)
         IN IF rebuilt.raised THEN [raised |-> TRUE, value |-> FALSE, msg |-> msg]
            ELSE LET sentences == sent_tokenize(rebuilt.value) IN
                 [raised |-> FALSE,
                  value |-> \E k \in 1..Len(sentences) : HasMark(sentences[k]),
                  msg |-> [msg EXCEPT !.text = Str(rebuilt.value)]]

msg_has_question(msg) ==
    IF "text" \notin DOMAIN msg THEN [raised |-> TRUE, value |-> FALSE, msg |-> msg]
    ELSE LET rebuilt == IF IsStr(msg.text) THEN Return(msg.text.v)
                        ELSE rebuild_msg(msg.text)
         IN IF rebuilt.raised THEN [raised |-> TRUE, value |-> FALSE, msg |-> msg]
            ELSE \* the loop over sent_tokenize(msg['text']) only continues, and
                 \* return True follows it
                 [raised |-> FALSE, value |-> TRUE,
                  msg |-> [msg EXCEPT !.text = Str(rebuilt.value)]]

-----------------------------------------------------------------------------
(* The exports and stopword files the model loads *)

Senders == {"A", "B"}

DanglingId == 7

TopNs == (-1)..MaxTopN

PlainText == Str(<<"a", " ", "1">>)

PlainQuestion == Str(<<"a", "?", " ", "b">>)

\* no sentence at all
BlankText == Str(<<" ">>)

SegmentedQuestion == List(<<Dict(<<<<KeyText, Str(<<"c">>)>>>>), Str(<<"AQ">>)>>)

SegmentedText == List(<<Str(<<"K">>), Dict(<<<<KeyText, Str(<<"k">>)>>>>)>>)

\* [{"text": "a"}, "b", {"other": 1}, "c"]
MixedText ==
    List(<<Dict(<<<<KeyText, Str(<<"a">>)>>>>), Str(<<"b">>),
           Dict(<<<<KeyOther, Num(1)>>>>), Str(<<"c">>)>>)

\* texts of no shape the data model has: a number, a record, and sequences
\* holding a number, a record whose text is a number, a sequence
NumberText == Num(1)

RecordText == Dict(<<<<KeyOther, Str(<<"a", "?">>)>>>>)

NumberInSequence == List(<<Str(<<"a">>), Num(1)>>)

NumberInRecord == List(<<Dict(<<<<KeyText, Num(1)>>>>)>>)

SequenceInSequence == List(<<List(<<Str(<<"a">>)>>)>>)

\* a message with the key id and, unless the argument says there is none, the
\* keys from, reply_to_message_id and text
NoFrom == "none"

NoReply == -1

NoText == [t |-> "none", v |-> <<>>]

Message(id, from, reply, text) ==
    LET keys == {"id"}
                \cup (IF from = NoFrom THEN {} ELSE {"from"})
                \cup (IF reply = NoReply THEN {} ELSE {"reply_to_message_id"})
                \cup (IF text.t = "none" THEN {} ELSE {"text"})
    IN [k \in keys |->
          CASE k = "id" -> id
            [] k = "from" -> from
            [] k = "reply_to_message_id" -> reply
            [] k = "text" -> text]

\* the exports of n messages with consecutive ids from first, the texts drawn
\* from a sequence of texts
Exports(n, first, froms, replies, texts) ==
    { [i \in 1..n |-> Message(first + i - 1, c[i][1], c[i][2], texts[c[i][3]])] :
        c \in [1..n -> froms \X replies \X (1..Len(texts))] }

\* lines 31-33: the stopword set of a stopword file, its lines stripped and
\* normalized
StopWords(lines) == {normalize(Strip(line)) : line \in lines}

StopwordLines == {<<"b">>, <<"1", " ">>}

NoCall == [op |-> "none", arg |-> 0, raised |-> FALSE, value |-> <<>>,
           is_question |-> {}]

\* exports of up to MaxMsgs plain messages, the first with id 0, replying to
\* the first, to the second or to no message of the export
InitTop ==
    /\ \E n \in 0..MaxMsgs :
         chat_data \in Exports(n, 0, Senders, {NoReply, 0, 1, DanglingId},
                               <<PlainText, PlainQuestion>>)
    /\ stop_words = {}
    /\ loaded = chat_data
    /\ ret = NoCall

\* exports of up to MaxCallMsgs plain and segmented messages, and an empty
\* stopword file or one of two lines
Init ==
    /\ \E n \in 0..MaxCallMsgs :
         chat_data \in Exports(n, 1, Senders, {NoReply, 1},
                               <<PlainText, PlainQuestion, SegmentedQuestion,
                                 SegmentedText>>)
    /\ \E lines \in {{}, StopwordLines} : stop_words = StopWords(lines)
    /\ loaded = chat_data
    /\ ret = NoCall

\* exports of up to MaxCallMsgs messages of every text shape
InitFn ==
    /\ \E n \in 1..MaxCallMsgs :
         chat_data \in Exports(n, 1, {"A"}, {NoReply},
                               <<PlainText, PlainQuestion, BlankText, Str(<<>>),
                                 SegmentedQuestion, SegmentedText, MixedText,
                                 List(<<>>)>>)
    /\ stop_words = {}
    /\ loaded = chat_data
    /\ ret = NoCall

\* exports of up to MaxCallMsgs messages, some without from or text, some
\* with a malformed text
InitErr ==
    /\ \E n \in 0..MaxCallMsgs :
         chat_data \in Exports(n, 1, {"A", NoFrom}, {NoReply, 1},
                               <<PlainText, PlainQuestion, SegmentedQuestion,
                                 NoText, NumberText, RecordText, NumberInSequence,
                                 NumberInRecord, SequenceInSequence>>)
    /\ stop_words = {}
    /\ loaded = chat_data
    /\ ret = NoCall

-----------------------------------------------------------------------------
(* The operations *)

GetTopUsers(top_n) ==
    LET out == get_top_users(chat_data, top_n) IN
    /\ chat_data' = out.messages
    /\ ret' = [op |-> "get_top_users", arg |-> top_n, raised |-> out.raised,
               value |-> out.value, is_question |-> out.is_question]
    /\ UNCHANGED <<stop_words, loaded>>

\* the renderer and the file it writes are outside the program: rendered is
\* whether WordCloud(...).generate and to_file return
GenerateWordCloud(rendered) ==
    LET text_content == prepare_text(chat_data, stop_words) IN
    /\ ret' = [op |-> "generate_word_cloud", arg |-> 0,
               raised |-> text_content.raised \/ ~rendered,
               value |-> text_content.value, is_question |-> {}]
    /\ UNCHANGED <<chat_data, stop_words, loaded>>

\* msg_has_question(msg) on the i-th message of the chat data
MsgHasQuestion(i) ==
    LET out == msg_has_question(chat_data[i]) IN
    /\ chat_data' = [chat_data EXCEPT ![i] = out.msg]
    /\ ret' = [op |-> "msg_has_question", arg |-> i, raised |-> out.raised,
               value |-> out.value, is_question |-> {}]
    /\ UNCHANGED <<stop_words, loaded>>

\* rebuild_msg(msg['text']) on the i-th message of the chat data
RebuildMsg(i) ==
    LET out == rebuild_msg(chat_data[i].text) IN
    /\ "text" \in DOMAIN chat_data[i]
    /\ ~IsStr(chat_data[i].text)
    /\ ret' = [op |-> "rebuild_msg", arg |-> i, raised |-> out.raised,
               value |-> out.value, is_question |-> {}]
    /\ UNCHANGED <<chat_data, stop_words, loaded>>

\* the caller's first call, on the export as loaded
NextTop == ret = NoCall /\ \E top_n \in TopNs : GetTopUsers(top_n)

Next ==
    \/ \E top_n \in TopNs : GetTopUsers(top_n)
    \/ \E rendered \in BOOLEAN : GenerateWordCloud(rendered)

NextFn ==
    \/ \E i \in 1..Len(chat_data) : MsgHasQuestion(i)
    \/ \E i \in 1..Len(chat_data) : RebuildMsg(i)

\* the first call of get_top_users, with every top_n, on exports whose ids
\* start at 0 (Spec has the later calls)
SpecTop == InitTop /\ [][NextTop]_vars

\* every sequence of calls of the two public operations
Spec == Init /\ [][Next]_vars

\* the two helpers, called on the messages of the chat data
SpecFn == InitFn /\ [][NextFn]_vars

\* the first call of get_top_users on malformed exports
SpecErr == InitErr /\ [][NextTop]_vars

-----------------------------------------------------------------------------
(* What the claims speak of, stated on the export as it was loaded *)

\* the text of an element of a segmented text
Piece(sub) ==
    IF sub.t = "str" THEN sub.v
    ELSE IF sub.t = "dict"
            /\ \E i \in 1..Len(sub.v) : sub.v[i][1] = KeyText /\ sub.v[i][2].t = "str"
         THEN (CHOOSE pair \in {sub.v[i] : i \in 1..Len(sub.v)} : pair[1] = KeyText)[2].v
         ELSE <<>>

RECURSIVE Concat(_)
Concat(pieces) == IF pieces = <<>> THEN <<>> ELSE Head(pieces) \o Concat(Tail(pieces))

\* the characters of a message's text, a segmented one flattened
TextOf(msg) ==
    IF msg.text.t = "str" THEN msg.text.v
    ELSE Concat([i \in 1..Len(msg.text.v) |-> Piece(msg.text.v[i])])

ContainsMark(chars) == \E i \in 1..Len(chars) : chars[i] \in {"?", "AQ"}

\* the messages of the export that are questions
QuestionIds(messages) ==
    {messages[j].id : j \in {j \in 1..Len(messages) : ContainsMark(TextOf(messages[j]))}}

AllIds(messages) == {messages[j].id : j \in 1..Len(messages)}

\* the positions of the sender's messages that carry a reply_to_message_id
\* belonging to targets
RepliesTo(messages, sender, targets) ==
    {i \in 1..Len(messages) :
        /\ "from" \in DOMAIN messages[i]
        /\ messages[i].from = sender
        /\ "reply_to_message_id" \in DOMAIN messages[i]
        /\ messages[i].reply_to_message_id \in targets}

\* the replies the code counts: to a question, with a non-zero id
Counted(messages, sender) == RepliesTo(messages, sender, QuestionIds(messages) \ {0})

FirstCounted(messages, sender) ==
    CHOOSE i \in Counted(messages, sender) : \A j \in Counted(messages, sender) : i <= j

\* the count a returned mapping gives a sender, 0 when it has no entry
CountOf(value, sender) ==
    IF \E p \in 1..Len(value) : value[p][1] = sender
    THEN (CHOOSE pair \in {value[p] : p \in 1..Len(value)} : pair[1] = sender)[2]
    ELSE 0

\* a mapping: no key twice, no entry with a zero count
IsMapping(value) ==
    /\ \A p, q \in 1..Len(value) : value[p][1] = value[q][1] => p = q
    /\ \A p \in 1..Len(value) : value[p][2] > 0

DistinctSenders(messages) ==
    {messages[i].from : i \in {i \in 1..Len(messages) : "from" \in DOMAIN messages[i]}}

Returned == ret.op = "get_top_users" /\ ~ret.raised

-----------------------------------------------------------------------------
(* C1: for every export and every top_n at least the number of distinct     *)
(* senders, get_top_users returns for each sender exactly the number of     *)
(* that sender's messages that carry a present reply_to_message_id          *)
(* referring to a message whose text contains a question mark; senders      *)
(* with no such message do not appear.                                      *)
C1_CountsRepliesToQuestions ==
    (ret.op = "get_top_users" /\ ret.arg >= Cardinality(DistinctSenders(loaded)))
    => /\ ~ret.raised
       /\ IsMapping(ret.value)
       /\ \A s \in Senders :
            CountOf(ret.value, s)
              = Cardinality(RepliesTo(loaded, s, QuestionIds(loaded)))

-----------------------------------------------------------------------------
(* C2 as stated: for every integer k, get_top_users(top_n=k) returns at     *)
(* most k entries, with non-increasing counts.                              *)
NonIncreasing(value) ==
    \A p, q \in 1..Len(value) : p < q => value[p][2] >= value[q][2]

C2_AtMostKEntries ==
    Returned => Len(ret.value) <= ret.arg /\ NonIncreasing(ret.value)

(* C2 amended: for every integer k, get_top_users(top_n=k) returns at most  *)
(* max(k, 0) entries (none for k <= 0), with non-increasing counts.         *)
C2_AtMostKEntriesOrNone ==
    Returned =>
       /\ Len(ret.value) <= (IF ret.arg > 0 THEN ret.arg ELSE 0)
       /\ NonIncreasing(ret.value)

\* A's one counted reply comes before B's two, and top_n = 1 keeps B only
C2_Witness ==
    /\ Returned
    /\ ret.arg = 1
    /\ ret.value = << <<"B", 2>> >>
    /\ Cardinality(Counted(loaded, "A")) = 1
    /\ FirstCounted(loaded, "A") < FirstCounted(loaded, "B")

-----------------------------------------------------------------------------
(* C5: a message whose reply_to_message_id refers to an id that no message  *)
(* of the export has adds no vote for its sender, and get_top_users does    *)
(* not fail because of it: every sender's count is at most the number of    *)
(* the sender's replies to ids the export has.                              *)
Dangling(messages) ==
    {i \in 1..Len(messages) :
        /\ "reply_to_message_id" \in DOMAIN messages[i]
        /\ messages[i].reply_to_message_id \notin AllIds(messages)}

C5_DanglingReplyNoVote ==
    (ret.op = "get_top_users" /\ Dangling(loaded) # {})
    => /\ ~ret.raised
       /\ \A s \in Senders :
            CountOf(ret.value, s) <= Cardinality(RepliesTo(loaded, s, AllIds(loaded)))

\* B's only reply dangles and B has no entry, while A's reply is counted
C5_Witness ==
    /\ Returned
    /\ ret.value = << <<"A", 1>> >>
    /\ \E i \in Dangling(loaded) : loaded[i].from = "B"
    /\ RepliesTo(loaded, "B", AllIds(loaded)) = {}

-----------------------------------------------------------------------------
(* C9: senders with equal counts appear in the order of their first counted *)
(* reply in the message sequence, and a truncation that cuts through a      *)
(* group of tied senders keeps those encountered first.                     *)

C9_TiesInFirstEncounteredOrder ==
    Returned =>
       /\ \A p, q \in 1..Len(ret.value) :
            (p < q /\ ret.value[p][2] = ret.value[q][2])
            => FirstCounted(loaded, ret.value[p][1]) < FirstCounted(loaded, ret.value[q][1])
       /\ \A s \in Senders : \A p \in 1..Len(ret.value) :
            (/\ CountOf(ret.value, s) = 0
             /\ Cardinality(Counted(loaded, s)) = ret.value[p][2])
            => FirstCounted(loaded, ret.value[p][1]) < FirstCounted(loaded, s)

\* A and B are tied, B's counted reply comes first, and top_n = 1 keeps B only
C9_Witness ==
    /\ Returned
    /\ ret.arg = 1
    /\ ret.value = << <<"B", 1>> >>
    /\ Cardinality(Counted(loaded, "A")) = 1
    /\ FirstCounted(loaded, "B") < FirstCounted(loaded, "A")

-----------------------------------------------------------------------------
(* C3: generate_word_cloud skips every message whose text in the loaded     *)
(* export is segmented, in every sequence of calls of get_top_users and     *)
(* generate_word_cloud: the text it prepares is the text prepared from the  *)
(* plain messages of the loaded export alone; and get_top_users flags a     *)
(* segmented message as a question when a segment has a question mark.      *)
PlainMessages(messages) == SelectSeq(messages, LAMBDA m : IsStr(m.text))

C3_SegmentedSkipped ==
    /\ (ret.op = "generate_word_cloud" /\ ~ret.raised)
       => ret.value = prepare_text(PlainMessages(loaded), stop_words).value
    /\ Returned
       => \A i \in 1..Len(loaded) :
            (~IsStr(loaded[i].text) /\ ContainsMark(TextOf(loaded[i])))
            => loaded[i].id \in ret.is_question

-----------------------------------------------------------------------------
(* C4: the text generate_word_cloud prepares holds no token that, once      *)
(* normalized, is an entry of the stopword set.                             *)
Tokens(text) ==
    LET cut == {0} \cup {i \in 1..Len(text) : text[i] = " "} \cup {Len(text) + 1}
    IN {SubSeq(text, i + 1, j - 1) :
          <<i, j>> \in {p \in cut \X cut :
                          /\ p[1] < p[2] - 1
                          /\ \A h \in (p[1] + 1)..(p[2] - 1) : h \notin cut}}

C4_NoStopwordPrepared ==
    (ret.op = "generate_word_cloud" /\ ~ret.raised)
    => \A token \in Tokens(ret.value) : normalize(token) \notin stop_words

-----------------------------------------------------------------------------
(* C10: get_top_users changes the chat data only by replacing each          *)
(* segmented text with its rebuilt string (the messages, their order and    *)
(* their other keys stay), generate_word_cloud changes nothing, the stopword *)
(* set never changes; so every call get_top_users(top_n=k) returns what the *)
(* call returns on the export as loaded, and once every text is a string no *)
(* call changes the chat data.                                              *)
AllStr(messages) == \A i \in 1..Len(messages) : IsStr(messages[i].text)

C10_Step ==
    /\ stop_words' = stop_words
    /\ Len(chat_data') = Len(chat_data)
    /\ \A i \in 1..Len(chat_data) :
         /\ DOMAIN chat_data'[i] = DOMAIN chat_data[i]
         /\ \A k \in DOMAIN chat_data[i] \ {"text"} : chat_data'[i][k] = chat_data[i][k]
         /\ chat_data'[i].text.t = "str"
            => chat_data'[i].text.v = TextOf(chat_data[i])
         /\ chat_data'[i].text.t # "str"
            => chat_data[i].text.t # "str" /\ ret'.op # "get_top_users"
    /\ ret'.op = "generate_word_cloud" => chat_data' = chat_data
    /\ ret'.op = "get_top_users"
       => /\ ret'.raised = get_top_users(loaded, ret'.arg).raised
          /\ ret'.value = get_top_users(loaded, ret'.arg).value
          /\ AllStr(chat_data')
    /\ AllStr(chat_data) => chat_data' = chat_data

C10_Frame == [][C10_Step]_vars

\* a call of generate_word_cloud after a call of get_top_users that rebuilt a
\* segmented text
C10_Witness ==
    /\ ret.op = "generate_word_cloud"
    /\ \E i \in 1..Len(loaded) : ~IsStr(loaded[i].text) /\ IsStr(chat_data[i].text)
    /\ get_top_users(chat_data, 2).value # <<>>

-----------------------------------------------------------------------------
(* C6: rebuild_msg applied to a sequence returns the concatenation, in      *)
(* order, of every string element and of the text of every record element   *)
(* that has one, skips the other records without an error, and leaves the   *)
(* sequence as it was.                                                      *)
C6_RebuildConcatenates ==
    ret.op = "rebuild_msg"
    => /\ ~ret.raised
       /\ ret.value = TextOf(loaded[ret.arg])
       /\ chat_data[ret.arg].text = loaded[ret.arg].text

\* [{"text": "a"}, "b", {"other": 1}, "c"] gives "abc"
C6_Witness ==
    /\ ret.op = "rebuild_msg"
    /\ loaded[ret.arg].text = MixedText
    /\ ret.value = <<"a", "b", "c">>

-----------------------------------------------------------------------------
-----------------------------------------------------------------------------
(* C7: get_top_users raises whenever a message has no text or a text that   *)
(* is neither a string nor a sequence of strings and records, and whenever  *)
(* a message that replies to a question has no from; a missing from on a    *)
(* message that does not reply to a question causes no error; and a call    *)
(* that raises returns nothing.                                             *)
Malformed(msg) ==
    \/ "text" \notin DOMAIN msg
    \/ /\ msg.text.t # "str"
       /\ ~(/\ msg.text.t = "list"
            /\ \A k \in 1..Len(msg.text.v) : msg.text.v[k].t \in {"str", "dict"})

\* a text of the data model: a string, or a sequence of strings and of
\* records whose text, if they have one, is a string
OfDataModel(msg) ==
    /\ ~Malformed(msg)
    /\ msg.text.t = "list"
       => \A k \in 1..Len(msg.text.v) :
            msg.text.v[k].t = "dict"
            => \A h \in 1..Len(msg.text.v[k].v) :
                 msg.text.v[k].v[h][1] = KeyText => msg.text.v[k].v[h][2].t = "str"

AnswersWithoutFrom(messages) ==
    {i \in 1..Len(messages) :
        /\ "from" \notin DOMAIN messages[i]
        /\ "reply_to_message_id" \in DOMAIN messages[i]
        /\ messages[i].reply_to_message_id \in QuestionIds(messages)}

C7_RaisesOnMalformed ==
    ret.op = "get_top_users"
    => /\ (\E i \in 1..Len(loaded) : Malformed(loaded[i])) => ret.raised
       /\ ((\A i \in 1..Len(loaded) : ~Malformed(loaded[i]))
           /\ AnswersWithoutFrom(loaded) # {}) => ret.raised
       /\ ((\A i \in 1..Len(loaded) : OfDataModel(loaded[i]))
           /\ AnswersWithoutFrom(loaded) = {}) => ~ret.raised
       /\ ret.raised => ret.value = <<>>

====
